---- MODULE Spec2Model ----
(***************************************************************************)
(* Model of the AI SQL agent: the DatabaseConnector (db_connector.py),     *)
(* the fence clean-up of generate_sql_query (sql_genrator.py) and the      *)
(* Streamlit script main.py, one script run per action.                    *)
(***************************************************************************)
EXTENDS Integers, Sequences, FiniteSets, TLC

VARIABLES
    env,        \* os.environ: the DB_* variables, name -> value or None
    self,       \* the DatabaseConnector object, or NoConnector before __init__
    closes,     \* number of close() calls made on self
    database,   \* the backend's catalog: sequence of tables in catalog order
    result,     \* the last call on the connector: its name, inputs and outcome
    response,   \* the text the LLM answers with (a sequence of characters)
    generated,  \* what generate_sql_query returned for it, or NotGenerated
    widgets,        \* main.py: the widget values the browser holds
    session_state,  \* st.session_state
    tmp_files,      \* the temporary files on disk (by connector number)
    sample_db,      \* whether sample_data/sample_db.sqlite exists
    connectors,     \* every DatabaseConnector the script runs constructed
    atexit_handlers,\* the cleanup functions registered, with their globals
    process,        \* "running" or "exited"
    pending,        \* st.rerun() was called: the script runs again at once
    last,           \* what the last script run did
    runs            \* number of script runs so far

connVars == <<env, self, closes, database, result>>

genVars == <<response, generated>>

uiVars == <<widgets, session_state, tmp_files, sample_db, connectors,
            atexit_handlers, process, pending, last, runs>>

vars == <<env, self, closes, database, result, response, generated,
          widgets, session_state, tmp_files, sample_db, connectors,
          atexit_handlers, process, pending, last, runs>>

-----------------------------------------------------------------------------
(* Bounds *)

MaxCloses == 2

-----------------------------------------------------------------------------
(* Python values *)

None == "None"

NoConnector == [db_type |-> "<no object>"]

\* Python's  a or b : None and the empty string are falsy.
Or(a, b) == IF a = None \/ a = "" THEN b ELSE a

\* The outcome of evaluating a body: a returned value or a raised exception.
Ret(v) == [raised |-> FALSE, value |-> v]

Raise(e) == [raised |-> TRUE, value |-> e]

\* A str built as f"{prefix}{cause}".
Str(prefix, cause) == [type |-> "str", prefix |-> prefix, cause |-> cause]

DataFrame(rows) == [type |-> "DataFrame", rows |-> rows]

Tuple(ok, message) == [type |-> "tuple", ok |-> ok, message |-> message]

NoneValue == [type |-> "NoneType"]

\* try: body / except Exception as e: return f"{prefix}{str(e)}"
TryExcept(body, prefix) ==
    IF body.raised THEN Ret(Str(prefix, body.value)) ELSE body

-----------------------------------------------------------------------------
(* The backend: SQLAlchemy's create_engine and the databases behind it *)

SupportedTypes == {"sqlite", "mysql", "postgresql"}

\* Table names a catalog can hold.  "Users" needs quoting in PostgreSQL to
\* keep its case, "order items" needs quoting in every dialect, and
\* "sqlite_sequence" is SQLite's own bookkeeping table.
TableNames == {"users", "Users", "order items", "sqlite_sequence"}

\* What an unquoted identifier is folded to by PostgreSQL.
Lower(n) == IF n = "Users" THEN "users" ELSE n

\* An identifier that is only legal when quoted.
NeedsQuoting(n) == n \in {"order items", "my-db"}

\* SQLite's  name LIKE 'sqlite_%'
LikeSqlitePrefix(n) == n \in {"sqlite_sequence"}

HasTable(db, n) == \E i \in DOMAIN db : db[i].name = n

TableOf(db, n) == db[CHOOSE i \in DOMAIN db : db[i].name = n]

NameColumn(db) == [i \in DOMAIN db |-> db[i].name]

IsUserTable(t) == ~LikeSqlitePrefix(t.name)

\* sqlalchemy.create_engine(url): parsing the URL converts the port with
\* int(), so a port rendered from None ("None") raises ValueError; a dialect
\* whose DBAPI driver cannot be imported raises as well.  SQLite's driver is
\* part of the standard library.
create_engine(url, driver_ok) ==
    IF url.drivername # "sqlite" /\ url.port = None
    THEN Raise("ValueError: invalid literal for int()")
    ELSE IF url.drivername # "sqlite" /\ ~driver_ok
    THEN Raise("ModuleNotFoundError")
    ELSE Ret([dialect |-> url.drivername, url |-> url, pool_gen |-> 0])

\* self.engine when _create_engine returned None.
NoneEngine == [dialect |-> None]

\* Engine.dispose(): the pool is closed and a new one is created at once; the
\* engine itself stays usable.
dispose(engine) == [engine EXCEPT !.pool_gen = @ + 1]

Q(text, arg) == [text |-> text, arg |-> arg]

\* An unquoted table identifier in FROM / DESCRIBE, as the backend resolves it.
ResolveUnquoted(dialect, db, n) ==
    LET m == IF dialect = "postgresql" THEN Lower(n) ELSE n
    IN  IF NeedsQuoting(n) THEN Raise("ProgrammingError: syntax error")
        ELSE IF ~HasTable(db, m) THEN Raise("ProgrammingError: no such table")
        ELSE Ret(m)

\* The statements a user can submit to execute_query.
UserQueries == {"SELECT 1 AS x", "SELEC 1", "CREATE TABLE t (a INTEGER)", ""}

\* What the backend answers to one statement.
Execute(engine, db, q) ==
    LET d == engine.dialect
        unq == ResolveUnquoted(d, db, q.arg)
    IN
    CASE q.text = "SELECT sqlite_version();" ->
           IF d = "sqlite" THEN Ret(DataFrame(<<"3">>))
           ELSE Raise("ProgrammingError: no such function")
      [] q.text = "SELECT VERSION();" ->
           IF d = "mysql" THEN Ret(DataFrame(<<"8">>))
           ELSE Raise("ProgrammingError: no such function")
      [] q.text = "SELECT version();" ->
           IF d \in {"postgresql", "mysql"} THEN Ret(DataFrame(<<"16">>))
           ELSE Raise("ProgrammingError: no such function")
      [] q.text = "SELECT name FROM sqlite_master WHERE type='table';" ->
           IF d = "sqlite" THEN Ret(DataFrame(NameColumn(db)))
           ELSE Raise("ProgrammingError: no such table")
      [] q.text = "SELECT name FROM sqlite_master WHERE type='table' AND name NOT LIKE 'sqlite_%';" ->
           IF d = "sqlite"
           THEN Ret(DataFrame(NameColumn(SelectSeq(db, IsUserTable))))
           ELSE Raise("ProgrammingError: no such table")
      [] q.text = "PRAGMA table_info('{table_name}');" ->
           IF d = "sqlite" /\ HasTable(db, q.arg)
           THEN Ret(DataFrame(TableOf(db, q.arg).cols))
           ELSE Raise("ResourceClosedError")
      [] q.text = "SELECT COUNT(*) as count FROM '{table_name}';" ->
           IF d = "sqlite" /\ HasTable(db, q.arg)
           THEN Ret(DataFrame(<<[count |-> TableOf(db, q.arg).rows]>>))
           ELSE Raise("ProgrammingError: no such table")
      [] q.text = "SHOW TABLES;" ->
           IF d = "mysql" THEN Ret(DataFrame(NameColumn(db)))
           ELSE Raise("ProgrammingError: syntax error")
      [] q.text = "SHOW TABLES FROM {self.db_name};" ->
           IF d = "mysql" /\ q.arg # None /\ ~NeedsQuoting(q.arg)
           THEN Ret(DataFrame(NameColumn(db)))
           ELSE Raise("ProgrammingError: syntax error")
      [] q.text = "SELECT table_name FROM information_schema.tables WHERE table_schema = 'public';" ->
           IF d = "postgresql" THEN Ret(DataFrame(NameColumn(db)))
           ELSE Raise("ProgrammingError: no such table")
      [] q.text = "DESCRIBE {table_name};" ->
           IF d # "mysql" THEN Raise("ProgrammingError: syntax error")
           ELSE IF unq.raised THEN unq
           ELSE Ret(DataFrame(
                  [i \in DOMAIN TableOf(db, unq.value).cols |->
                     LET c == TableOf(db, unq.value).cols[i]
                     IN  [Field |-> c.name, Type |-> c.type,
                          Key |-> IF c.pk > 0 THEN "PRI" ELSE ""]]))
      [] q.text = "SELECT column_name, data_type, CASE WHEN EXISTS (...) THEN 'PRIMARY KEY' ELSE '' END as key FROM information_schema.columns WHERE table_name = '{table_name}';" ->
           IF d # "postgresql" THEN Raise("ProgrammingError: syntax error")
           ELSE IF ~HasTable(db, q.arg) THEN Ret(DataFrame(<<>>))
           ELSE Ret(DataFrame(
                  [i \in DOMAIN TableOf(db, q.arg).cols |->
                     LET c == TableOf(db, q.arg).cols[i]
                     IN  [column_name |-> c.name, data_type |-> c.type,
                          key |-> IF c.pk > 0 THEN "PRIMARY KEY" ELSE ""]]))
      [] q.text = "SELECT COUNT(*) as count FROM {table_name};" ->
           IF d = "sqlite" THEN Raise("ProgrammingError: syntax error")
           ELSE IF unq.raised THEN unq
           ELSE Ret(DataFrame(<<[count |-> TableOf(db, unq.value).rows]>>))
      [] q.text = "SELECT 1 AS x" -> Ret(DataFrame(<<[x |-> 1]>>))
      [] q.text = "CREATE TABLE t (a INTEGER)" -> Raise("ResourceClosedError")
      [] OTHER -> Raise("ProgrammingError: syntax error")

\* pd.read_sql_query(text(sql), engine).  backend_ok is whether the backend
\* can be reached and answers this statement at all.
read_sql_query(q, engine, backend_ok, db) ==
    IF engine = NoneEngine THEN Raise("AttributeError: NoneType")
    ELSE IF ~backend_ok THEN Raise("OperationalError")
    ELSE Execute(engine, db, q)

-----------------------------------------------------------------------------
(* db_connector.py: class DatabaseConnector *)

FieldNames == {"db_path", "db_host", "db_name", "db_user", "db_password", "db_port"}

EnvName(f) ==
    CASE f = "db_path" -> "DB_PATH" [] f = "db_host" -> "DB_HOST"
      [] f = "db_name" -> "DB_NAME" [] f = "db_user" -> "DB_USER"
      [] f = "db_password" -> "DB_PASSWORD" [] f = "db_port" -> "DB_PORT"

EnvNames == {EnvName(f) : f \in FieldNames}

\* The body of _create_engine's try block: the URL each branch formats,
\* handed to create_engine.
engine_for(slf, driver_ok) ==
    IF slf.db_type = "sqlite"
    THEN create_engine([drivername |-> "sqlite", database |-> slf.db_path],
                       driver_ok)
    ELSE IF slf.db_type \in {"mysql", "postgresql"}
    THEN create_engine([drivername |-> slf.db_type,
                        username |-> slf.db_user,
                        password |-> slf.db_password,
                        host |-> slf.db_host, port |-> slf.db_port,
                        database |-> slf.db_name], driver_ok)
    ELSE Raise("ValueError: Unsupported database type")

\* _create_engine: any exception is printed and None returned.
_create_engine(slf, driver_ok) ==
    LET made == engine_for(slf, driver_ok)
    IN  IF made.raised
        THEN [raised |-> FALSE, value |-> NoneEngine,
              printed |-> <<Str("Error creating database engine: ", made.value)>>]
        ELSE [raised |-> FALSE, value |-> made.value, printed |-> <<>>]

\* __init__: arguments fall back to the environment; the engine is created.
DatabaseConnector(db_type, args, environ, driver_ok) ==
    LET fields == [f \in FieldNames |-> Or(args[f], environ[EnvName(f)])]
        slf == [db_type |-> db_type,
                db_path |-> fields["db_path"], db_host |-> fields["db_host"],
                db_name |-> fields["db_name"], db_user |-> fields["db_user"],
                db_password |-> fields["db_password"],
                db_port |-> fields["db_port"]]
        made == _create_engine(slf, driver_ok)
    IN  IF made.raised
        THEN [raised |-> TRUE, value |-> made.value, printed |-> <<>>]
        ELSE [raised |-> FALSE,
              value |-> [db_type |-> slf.db_type, db_path |-> slf.db_path,
                         db_host |-> slf.db_host, db_name |-> slf.db_name,
                         db_user |-> slf.db_user,
                         db_password |-> slf.db_password,
                         db_port |-> slf.db_port, engine |-> made.value],
              printed |-> made.printed]

execute_query_unguarded(slf, query, backend_ok, db) ==
    read_sql_query(Q(query, ""), slf.engine, backend_ok, db)

execute_query(slf, query, backend_ok, db) ==
    TryExcept(
        IF slf.engine = NoneEngine
        THEN Ret(Str("Database connection not established.", ""))
        ELSE read_sql_query(Q(query, ""), slf.engine, backend_ok, db),
        "Error executing query: ")

get_tables(slf, backend_ok, db) ==
    IF slf.db_type \notin SupportedTypes
    THEN Ret(Str("Unsupported database type.", ""))
    ELSE TryExcept(
           read_sql_query(
             Q(CASE slf.db_type = "sqlite" ->
                      "SELECT name FROM sqlite_master WHERE type='table';"
                 [] slf.db_type = "mysql" -> "SHOW TABLES;"
                 [] slf.db_type = "postgresql" ->
                      "SELECT table_name FROM information_schema.tables WHERE table_schema = 'public';",
               ""),
             slf.engine, backend_ok, db),
           "Error fetching tables: ")

test_connection_always_ok(slf, backend_ok, db) ==
    Ret(Tuple(TRUE, Str("Connection successful.", "")))

test_connection(slf, backend_ok, db) ==
    IF slf.engine = NoneEngine
    THEN Ret(Tuple(FALSE, Str("Database engine not created.", "")))
    ELSE LET test_query ==
               IF slf.db_type = "sqlite" THEN "SELECT sqlite_version();"
               ELSE IF slf.db_type = "mysql" THEN "SELECT VERSION();"
               ELSE "SELECT version();"
             r == read_sql_query(Q(test_query, ""), slf.engine, backend_ok, db)
         IN  IF r.raised
             THEN Ret(Tuple(FALSE, Str("Connection failed: ", r.value)))
             ELSE Ret(Tuple(TRUE, Str("Connection successful.", "")))

\* close: dispose the engine if there is one; nothing else changes.
close(slf) ==
    IF slf.engine # NoneEngine
    THEN [slf EXCEPT !.engine = dispose(slf.engine)]
    ELSE slf

-----------------------------------------------------------------------------
(* get_schema_info: the schema report *)

\* The lines of one table block.
HeaderLine(table_name) == [text |-> "Table: ", name |-> table_name]

ColumnsLine == [text |-> "Columns:"]

ColumnLine(col_name, col_type, is_pk) ==
    [text |-> "  - ", name |-> col_name, type |-> col_type, is_pk |-> is_pk]

TotalRowsLine(count) == [text |-> "Total rows: ", count |-> count]

\* "\n".join(schema_info): the report is the blocks in the order appended.
Joined(schema_info) ==
    [type |-> "str", prefix |-> "", cause |-> "", blocks |-> schema_info]

\* The table blocks a returned string holds.
TableBlocks(v) == IF "blocks" \in DOMAIN v THEN v.blocks ELSE <<>>

\* is_pk of one row of PRAGMA table_info.
sqlite_is_pk(row) == IF row.pk = 1 THEN "PRIMARY KEY" ELSE ""

mysql_is_pk(row) == IF row.Key = "PRI" THEN "PRIMARY KEY" ELSE ""

postgresql_is_pk(row) == row.key

\* The column lines of one table, from the rows of its column query.
column_lines(db_type, columns) ==
    [i \in DOMAIN columns |->
       CASE db_type = "sqlite" ->
              ColumnLine(columns[i].name, columns[i].type, sqlite_is_pk(columns[i]))
         [] db_type = "mysql" ->
              ColumnLine(columns[i].Field, columns[i].Type, mysql_is_pk(columns[i]))
         [] db_type = "postgresql" ->
              ColumnLine(columns[i].column_name, columns[i].data_type,
                         postgresql_is_pk(columns[i]))]

columns_query(db_type) ==
    CASE db_type = "sqlite" -> "PRAGMA table_info('{table_name}');"
      [] db_type = "mysql" -> "DESCRIBE {table_name};"
      [] db_type = "postgresql" ->
           "SELECT column_name, data_type, CASE WHEN EXISTS (...) THEN 'PRIMARY KEY' ELSE '' END as key FROM information_schema.columns WHERE table_name = '{table_name}';"

count_query(db_type) ==
    IF db_type = "sqlite" THEN "SELECT COUNT(*) as count FROM '{table_name}';"
    ELSE "SELECT COUNT(*) as count FROM {table_name};"

tables_query(slf) ==
    CASE slf.db_type = "sqlite" ->
           Q("SELECT name FROM sqlite_master WHERE type='table' AND name NOT LIKE 'sqlite_%';", "")
      [] slf.db_type = "mysql" -> Q("SHOW TABLES FROM {self.db_name};", slf.db_name)
      [] slf.db_type = "postgresql" ->
           Q("SELECT table_name FROM information_schema.tables WHERE table_schema = 'public';", "")

\* One pass of the loop body: the block of table_name, or the exception of
\* the query that failed.
table_info(slf, table_name, columns_ok, count_ok, db) ==
    LET columns == read_sql_query(Q(columns_query(slf.db_type), table_name),
                                  slf.engine, columns_ok, db)
        count == read_sql_query(Q(count_query(slf.db_type), table_name),
                                slf.engine, count_ok, db)
    IN  IF columns.raised THEN columns
        ELSE IF count.raised THEN count
        ELSE IF Len(count.value.rows) = 0 THEN Raise("IndexError")
        ELSE Ret(<<HeaderLine(table_name), ColumnsLine>>
                 \o column_lines(slf.db_type, columns.value.rows)
                 \o <<TotalRowsLine(count.value.rows[1].count)>>)

\* Query k of a call reaches the backend unless it is the one that fails.
QueryOk(k, fail_at) == k # fail_at

\* The for loop over the table names, from table i on, schema_info so far.
\* When a query raises, built is schema_info as it stood at that moment.
RECURSIVE for_tables(_, _, _, _, _, _)
for_tables(slf, names, i, schema_info, fail_at, db) ==
    IF i > Len(names) THEN Ret(schema_info)
    ELSE LET blk == table_info(slf, names[i], QueryOk(2 * i, fail_at),
                               QueryOk(2 * i + 1, fail_at), db)
         IN  IF blk.raised
             THEN [raised |-> TRUE, value |-> blk.value, built |-> schema_info]
             ELSE for_tables(slf, names, i + 1, Append(schema_info, blk.value),
                             fail_at, db)

\* The body of the try block.
schema_body(slf, fail_at, db) ==
    IF slf.db_type \in SupportedTypes
    THEN LET tables == read_sql_query(tables_query(slf), slf.engine,
                                      QueryOk(1, fail_at), db)
         IN  IF tables.raised
             THEN [raised |-> TRUE, value |-> tables.value, built |-> <<>>]
             ELSE for_tables(slf, tables.value.rows, 1, <<>>, fail_at, db)
    ELSE Ret(<<>>)

\* A variant whose handler returns the blocks built before the failure.
get_schema_info_partial(slf, fail_at, db) ==
    LET body == schema_body(slf, fail_at, db)
    IN  IF body.raised THEN Ret(Joined(body.built)) ELSE Ret(Joined(body.value))

get_schema_info(slf, fail_at, db) ==
    LET body == schema_body(slf, fail_at, db)
    IN  IF body.raised
        THEN Ret(Str("Error fetching schema information: ", body.value))
        ELSE Ret(Joined(body.value))

-----------------------------------------------------------------------------
(* sql_genrator.py: generate_sql_query *)

MaxPieces == 5

\* The characters that matter: the backquote and the newline.
BQ == "backquote"

NL == "newline"

Whitespace == {NL, "space"}

\* The opening fence (three backquotes and sql) and the bare fence.
FenceSql == <<BQ, BQ, BQ, "s", "q", "l">>

Fence == <<BQ, BQ, BQ>>

\* Texts are sequences of characters; a whole statement that holds neither a
\* backquote nor white space at its ends counts as one character.
Pieces == {FenceSql, Fence, <<NL>>, <<"SELECT 1 AS x">>, <<BQ>>}

RECURSIVE Concat(_)
Concat(ps) == IF ps = <<>> THEN <<>> ELSE Head(ps) \o Concat(Tail(ps))

LLMTexts == { Concat(ps) : ps \in UNION { [1..n -> Pieces] : n \in 0..MaxPieces } }

\* str.startswith
startswith(s, prefix) ==
    Len(s) >= Len(prefix) /\ SubSeq(s, 1, Len(prefix)) = prefix

\* str.endswith
endswith(s, suffix) ==
    Len(s) >= Len(suffix) /\ SubSeq(s, Len(s) - Len(suffix) + 1, Len(s)) = suffix

\* str.lstrip / str.rstrip / str.strip
RECURSIVE lstrip(_)
lstrip(s) ==
    IF s # <<>> /\ Head(s) \in Whitespace THEN lstrip(Tail(s)) ELSE s

RECURSIVE rstrip(_)
rstrip(s) ==
    IF s # <<>> /\ s[Len(s)] \in Whitespace
    THEN rstrip(SubSeq(s, 1, Len(s) - 1)) ELSE s

strip(s) == rstrip(lstrip(s))

\* str.replace(old, ""): every non-overlapping occurrence, left to right.
RECURSIVE remove(_, _)
remove(s, old) ==
    IF s = <<>> THEN <<>>
    ELSE IF startswith(s, old) THEN remove(SubSeq(s, Len(old) + 1, Len(s)), old)
    ELSE <<Head(s)>> \o remove(Tail(s), old)

\* Lines 50-54: strip, then the clean-up of a text that starts with the opening fence.
clean_sql(text) ==
    LET sql_query == strip(text)
    IN  IF startswith(sql_query, FenceSql)
        THEN strip(remove(remove(sql_query, FenceSql), Fence))
        ELSE sql_query

SqlText(chars) == [type |-> "str", prefix |-> "", cause |-> "", chars |-> chars]

\* A variant whose except clause raises the message instead of returning it.
generate_sql_query_raising(llm) ==
    IF llm.raised THEN Raise(Str("Error generating SQL query: ", llm.value))
    ELSE Ret(SqlText(clean_sql(llm.value)))

\* generate_sql_query: llm is the outcome of model.generate_content(...).text
generate_sql_query(llm) ==
    IF llm.raised THEN Ret(Str("Error generating SQL query: ", llm.value))
    ELSE Ret(SqlText(clean_sql(llm.value)))

NotGenerated == [raised |-> FALSE, value |-> [type |-> "unset"]]



-----------------------------------------------------------------------------
(* Catalogs and profiles the model draws from *)

MaxTables == 2

MaxRows == 1

\* Column layouts: a single-column key, a two-column key declared (b, a),
\* and no key.  pk is the column's position in the primary key, 0 if none.
ColumnLayouts ==
    { <<[name |-> "id", type |-> "INTEGER", pk |-> 1],
        [name |-> "name", type |-> "TEXT", pk |-> 0]>>,
      <<[name |-> "a", type |-> "INTEGER", pk |-> 2],
        [name |-> "b", type |-> "INTEGER", pk |-> 1],
        [name |-> "c", type |-> "TEXT", pk |-> 0]>>,
      <<[name |-> "v", type |-> "TEXT", pk |-> 0]>> }

Tables == [name : TableNames, cols : ColumnLayouts, rows : 0..MaxRows]

\* A catalog a backend of this dialect can hold: names are distinct (in
\* SQLite, without regard to case) and sqlite_sequence exists in SQLite only.
IsCatalog(dialect, db) ==
    /\ \A i, j \in DOMAIN db : i # j => db[i].name # db[j].name
    /\ dialect = "sqlite" =>
         \A i, j \in DOMAIN db : i # j => Lower(db[i].name) # Lower(db[j].name)
    /\ dialect # "sqlite" => \A i \in DOMAIN db : db[i].name # "sqlite_sequence"

Catalogs(dialect) ==
    { db \in UNION { [1..n -> Tables] : n \in 0..MaxTables } : IsCatalog(dialect, db) }

\* The catalog behind the connector while its lifecycle is explored.
SampleCatalog ==
    << [name |-> "users", rows |-> 1,
        cols |-> <<[name |-> "id", type |-> "INTEGER", pk |-> 1],
                   [name |-> "name", type |-> "TEXT", pk |-> 0]>>] >>

ArgValues == {None, "", "v"}

\* The environments explored: nothing set, every DB_* variable set, only
\* DB_PATH set, and everything but DB_PORT set.
Environments ==
    { [n \in EnvNames |-> IF n \in S THEN "e" ELSE None] :
        S \in { {}, EnvNames, {"DB_PATH"}, EnvNames \ {"DB_PORT"} } }

DbTypes == SupportedTypes \cup {"oracle"}

NoArgs == [f \in FieldNames |-> None]

NoEnv == [n \in EnvNames |-> None]

\* The keyword arguments main.py passes for each dialect.
FullArgs(dialect) ==
    IF dialect = "sqlite" THEN [NoArgs EXCEPT !["db_path"] = "v"]
    ELSE [f \in FieldNames |-> IF f = "db_path" THEN None ELSE "v"]

-----------------------------------------------------------------------------
(* main.py: the Streamlit script.  One action is one run of the script, from
   the widget interaction that causes it to the last line it reaches. *)

MaxRuns == 6

MaxHistory == 2

Example == "Show me the first 5 rows from each table"

Questions == {"How many users?"}

Absent == [type |-> "absent"]

\* Python truthiness of a stored SQL text.
Truthy(v) ==
    /\ v # Absent
    /\ "chars" \in DOMAIN v => v.chars # <<>>

\* The statement the backend is handed for a stored SQL text.
Statement(v) ==
    IF "chars" \in DOMAIN v /\ Len(v.chars) = 1 THEN v.chars[1]
    ELSE "<not a statement>"

\* What the LLM answers in a session: the statement in fences, or prose.
SessionResponses ==
    { FenceSql \o <<NL, "SELECT 1 AS x", NL>> \o Fence, <<"I cannot answer">> }

\* What the user can type into the SQL text area.
EditedSql == { SqlText(<<"SELEC 1">>) }

\* The form values of the Connect form: complete, or the password left empty.
FormArgs ==
    { [f \in FieldNames |-> IF f = "db_path" THEN None ELSE "v"],
      [f \in FieldNames |-> IF f \in {"db_path", "db_password"} THEN None ELSE "v"] }

NoRun ==
    [trigger |-> "none", ended |-> "none", connection_status |-> None,
     sql_shown |-> FALSE, create_shown |-> FALSE, calls |-> <<>>,
     constructed |-> 0, backend_ok |-> TRUE]

NoSession ==
    /\ widgets = [db_type |-> "sqlite", uploaded_file |-> FALSE,
                  use_sample_db |-> FALSE, question |-> "", question_for |-> ""]
    /\ session_state = [user_input |-> "", sql_query |-> Absent,
                        query_history |-> <<>>, auto_run |-> FALSE]
    /\ tmp_files = {}
    /\ sample_db = FALSE
    /\ connectors = <<>>
    /\ atexit_handlers = <<>>
    /\ process = "running"
    /\ pending = FALSE
    /\ last = NoRun
    /\ runs = 0

\* The names local to the function cleanup: it assigns none.
cleanup_locals == {}

\* cleanup(), lines 410-420, run with the globals g of the script run that
\* registered it.  d is the pair of connectors and temporary files.
cleanup(g, d) ==
    LET closed ==
          IF "db_connector" \in cleanup_locals /\ g.db_connector # 0
          THEN [d.connectors EXCEPT ![g.db_connector].object = close(@)]
          ELSE d.connectors
        unlinked ==
          IF "db_path" \in cleanup_locals /\ g.uploaded_file = TRUE
          THEN d.tmp_files \ {g.db_path}
          ELSE d.tmp_files
    IN  [connectors |-> closed, tmp_files |-> unlinked]

\* The exit handlers run last registered first.
RECURSIVE run_exit_handlers(_, _)
run_exit_handlers(handlers, d) ==
    IF handlers = <<>> THEN d
    ELSE run_exit_handlers(SubSeq(handlers, 1, Len(handlers) - 1),
                           cleanup(handlers[Len(handlers)], d))

-----------------------------------------------------------------------------
(* The connector's calls as actions *)

Construct ==
    /\ self = NoConnector
    /\ \E db_type \in DbTypes, args \in [FieldNames -> ArgValues],
          driver_ok \in BOOLEAN :
         LET made == DatabaseConnector(db_type, args, env, driver_ok)
         IN  /\ self' = IF made.raised THEN NoConnector ELSE made.value
             /\ result' = [op |-> "__init__",
                           out |-> IF made.raised THEN Raise(made.value)
                                   ELSE Ret(NoneValue),
                           printed |-> made.printed]
    /\ UNCHANGED <<env, closes, database, genVars, uiVars>>

ExecuteQuery ==
    /\ self # NoConnector
    /\ \E query \in UserQueries, backend_ok \in BOOLEAN :
         result' = [op |-> "execute_query", query |-> query,
                    backend_ok |-> backend_ok,
                    out |-> execute_query(self, query, backend_ok, database)]
    /\ UNCHANGED <<env, self, closes, database, genVars, uiVars>>

GetTables ==
    /\ self # NoConnector
    /\ \E backend_ok \in BOOLEAN :
         result' = [op |-> "get_tables", backend_ok |-> backend_ok,
                    out |-> get_tables(self, backend_ok, database)]
    /\ UNCHANGED <<env, self, closes, database, genVars, uiVars>>

GetSchemaInfo ==
    /\ self # NoConnector
    /\ \E fail_at \in 0..(2 * Len(database) + 1) :
         result' = [op |-> "get_schema_info", fail_at |-> fail_at,
                    out |-> get_schema_info(self, fail_at, database)]
    /\ UNCHANGED <<env, self, closes, database, genVars, uiVars>>

TestConnection ==
    /\ self # NoConnector
    /\ \E backend_ok \in BOOLEAN :
         result' = [op |-> "test_connection", backend_ok |-> backend_ok,
                    out |-> test_connection(self, backend_ok, database)]
    /\ UNCHANGED <<env, self, closes, database, genVars, uiVars>>

Close ==
    /\ self # NoConnector
    /\ closes < MaxCloses
    /\ self' = close(self)
    /\ closes' = closes + 1
    /\ result' = [op |-> "close", out |-> Ret(NoneValue)]
    /\ UNCHANGED <<env, database, genVars, uiVars>>

NoCall == [op |-> "none"]

Init ==
    /\ env \in Environments
    /\ self = NoConnector
    /\ closes = 0
    /\ database = SampleCatalog
    /\ result = NoCall
    /\ response = <<>>
    /\ generated = NotGenerated
    /\ NoSession

Next ==
    \/ Construct
    \/ ExecuteQuery
    \/ GetTables
    \/ GetSchemaInfo
    \/ TestConnection
    \/ Close

Spec == Init /\ [][Next]_vars

\* The schema report over every catalog of every dialect, on a connector
\* built from a complete profile.
InitSchema ==
    /\ env = NoEnv
    /\ \E dialect \in SupportedTypes :
         /\ self = DatabaseConnector(dialect, FullArgs(dialect), NoEnv, TRUE).value
         /\ database \in Catalogs(dialect)
    /\ closes = 0
    /\ result = NoCall
    /\ response = <<>>
    /\ generated = NotGenerated
    /\ NoSession

NextSchema ==
    \/ GetSchemaInfo
    \/ GetTables

SpecSchema == InitSchema /\ [][NextSchema]_vars

\* The fence clean-up over every LLM text.
GenerateSql ==
    /\ generated = NotGenerated
    /\ \E llm_ok \in BOOLEAN :
         generated' = generate_sql_query(
                        IF llm_ok THEN Ret(response) ELSE Raise("GoogleAPIError"))
    /\ UNCHANGED <<connVars, response, uiVars>>

InitFence ==
    /\ env = NoEnv
    /\ self = NoConnector
    /\ closes = 0
    /\ database = <<>>
    /\ result = NoCall
    /\ response \in LLMTexts
    /\ generated = NotGenerated
    /\ NoSession

NextFence == GenerateSql

SpecFence == InitFence /\ [][NextFence]_vars

-----------------------------------------------------------------------------
(* One run of main.py *)

SamplePath == [NoArgs EXCEPT !["db_path"] = "sample_data/sample_db.sqlite"]

TempPath == [NoArgs EXCEPT !["db_path"] = "tmp.db"]

NoSetup == [constructed |-> FALSE, tmp |-> FALSE, raised |-> FALSE,
            create_shown |-> FALSE, created |-> FALSE]

\* The line of main.py that calls create_sample_database and the line of
\* its def statement.  The script runs top to bottom in a fresh namespace on
\* every rerun, so the name is bound at the call only if the def comes first.
create_sample_database_call == 63

create_sample_database_def == 271

\* Lines 271-395: the catalog create_sample_database writes, in creation
\* order, with the number of rows it inserts into each table.
create_sample_database ==
    << [name |-> "customers", rows |-> 5,
        cols |-> <<[name |-> "customer_id", type |-> "INTEGER", pk |-> 1],
                   [name |-> "name", type |-> "TEXT", pk |-> 0],
                   [name |-> "email", type |-> "TEXT", pk |-> 0],
                   [name |-> "registration_date", type |-> "DATE", pk |-> 0]>>],
       [name |-> "categories", rows |-> 4,
        cols |-> <<[name |-> "category_id", type |-> "INTEGER", pk |-> 1],
                   [name |-> "name", type |-> "TEXT", pk |-> 0],
                   [name |-> "description", type |-> "TEXT", pk |-> 0]>>],
       [name |-> "products", rows |-> 10,
        cols |-> <<[name |-> "product_id", type |-> "INTEGER", pk |-> 1],
                   [name |-> "name", type |-> "TEXT", pk |-> 0],
                   [name |-> "category_id", type |-> "INTEGER", pk |-> 0],
                   [name |-> "price", type |-> "REAL", pk |-> 0],
                   [name |-> "stock", type |-> "INTEGER", pk |-> 0]>>],
       [name |-> "orders", rows |-> 8,
        cols |-> <<[name |-> "order_id", type |-> "INTEGER", pk |-> 1],
                   [name |-> "customer_id", type |-> "INTEGER", pk |-> 0],
                   [name |-> "order_date", type |-> "DATE", pk |-> 0],
                   [name |-> "total_amount", type |-> "REAL", pk |-> 0]>>],
       [name |-> "order_items", rows |-> 12,
        cols |-> <<[name |-> "order_item_id", type |-> "INTEGER", pk |-> 1],
                   [name |-> "order_id", type |-> "INTEGER", pk |-> 0],
                   [name |-> "product_id", type |-> "INTEGER", pk |-> 0],
                   [name |-> "quantity", type |-> "INTEGER", pk |-> 0],
                   [name |-> "price", type |-> "REAL", pk |-> 0]>>] >>

\* Lines 34-88: the connector this run builds, if any.  A press of Create
\* Sample Database calls create_sample_database, which is defined further
\* down the script (line 271) and so is not yet bound: NameError.
connection_setup(w, kind, arg, sample_exists, environ) ==
    IF w.db_type = "sqlite"
    THEN IF w.uploaded_file
         THEN [NoSetup EXCEPT !.constructed = TRUE, !.tmp = TRUE] @@
              [made |-> DatabaseConnector("sqlite", TempPath, environ, TRUE)]
         ELSE IF w.use_sample_db
         THEN IF sample_exists
              THEN [NoSetup EXCEPT !.constructed = TRUE] @@
                   [made |-> DatabaseConnector("sqlite", SamplePath, environ, TRUE)]
              ELSE IF kind = "create_sample"
              THEN IF create_sample_database_def < create_sample_database_call
                   THEN [NoSetup EXCEPT !.constructed = TRUE, !.created = TRUE,
                                        !.create_shown = TRUE] @@
                        [made |-> DatabaseConnector("sqlite", SamplePath,
                                                    environ, TRUE)]
                   ELSE [NoSetup EXCEPT !.raised = TRUE, !.create_shown = TRUE]
              ELSE [NoSetup EXCEPT !.create_shown = TRUE]
         ELSE NoSetup
    ELSE IF kind = "connect"
    THEN [NoSetup EXCEPT !.constructed = TRUE] @@
         [made |-> DatabaseConnector(w.db_type, arg, environ, TRUE)]
    ELSE NoSetup

\* The widget values after the interaction that causes the run.
widgets_after(w, ss, kind, arg) ==
    LET t == IF kind = "select_db_type" THEN arg ELSE w.db_type
    IN  [db_type |-> t,
         uploaded_file |->
            IF t # "sqlite" THEN FALSE
            ELSE IF kind = "upload" THEN TRUE
            ELSE IF kind = "remove_upload" THEN FALSE
            ELSE w.uploaded_file,
         use_sample_db |->
            IF t # "sqlite" THEN FALSE
            ELSE IF kind = "toggle_sample" THEN ~w.use_sample_db
            ELSE w.use_sample_db,
         question |-> IF kind = "type_question" THEN arg ELSE w.question,
         question_for |->
            IF kind = "type_question" THEN ss.user_input ELSE w.question_for]

StatusOf(tc) == IF tc.value.ok THEN "True" ELSE "False"

\* The state of one script run as it proceeds: the interaction (kind, arg),
\* what the backend and the LLM do in this run, the script's globals, and
\* where and how the run stopped.
RunStart(kind, arg, backend_ok, llm) ==
    [kind |-> kind, arg |-> arg, backend_ok |-> backend_ok, llm |-> llm,
     fail_at |-> IF backend_ok THEN 0 ELSE 1,
     w |-> widgets_after(widgets, session_state, kind, arg),
     ss |-> session_state,
     db_connector |-> NoConnector, has |-> FALSE, tmp |-> FALSE,
     create_shown |-> FALSE, created |-> FALSE, db |-> database,
     connection_status |-> None, user_input |-> "", shown |-> FALSE,
     calls |-> <<>>, ended |-> "completed"]

\* Lines 34-88.
run_setup(c) ==
    LET setup == connection_setup(c.w, c.kind, c.arg, sample_db, env)
    IN  IF setup.raised \/ (setup.constructed /\ setup.made.raised)
        THEN [c EXCEPT !.ended = "exception",
                       !.create_shown = setup.create_shown]
        ELSE IF setup.constructed
        THEN [c EXCEPT !.db_connector = setup.made.value, !.has = TRUE,
                       !.tmp = setup.tmp, !.created = setup.created,
                       !.db = IF setup.created THEN create_sample_database
                              ELSE database]
        ELSE [c EXCEPT !.create_shown = setup.create_shown]

\* Lines 96-115.
run_status(c) ==
    IF c.ended # "completed" \/ ~c.has THEN c
    ELSE LET tc == test_connection(c.db_connector, c.backend_ok, c.db)
         IN  IF tc.value.ok
             THEN [c EXCEPT
                     !.connection_status = "True",
                     !.calls =
                        << [op |-> "test_connection", out |-> tc],
                           [op |-> "get_schema_info",
                            out |-> get_schema_info(c.db_connector, c.fail_at,
                                                    c.db)],
                           [op |-> "get_tables",
                            out |-> get_tables(c.db_connector, c.backend_ok,
                                               c.db)] >>]
             ELSE [c EXCEPT !.connection_status = "False",
                            !.calls = <<[op |-> "test_connection", out |-> tc]>>]

\* Lines 129-153: the example buttons, the question and the Clear button.
run_input(c) ==
    IF c.ended # "completed" THEN c
    ELSE LET ss1 == IF c.kind = "example"
                    THEN [c.ss EXCEPT !.user_input = Example] ELSE c.ss
             typed == IF c.w.question_for = ss1.user_input THEN c.w.question
                      ELSE ss1.user_input
         IN  IF c.kind = "clear"
             THEN [c EXCEPT !.ss = [ss1 EXCEPT !.user_input = "",
                                               !.sql_query = SqlText(<<>>)],
                            !.user_input = typed,
                            !.w = [c.w EXCEPT !.question = typed,
                                              !.question_for = ss1.user_input],
                            !.ended = "rerun"]
             ELSE [c EXCEPT !.ss = ss1, !.user_input = typed,
                            !.w = [c.w EXCEPT !.question = typed,
                                              !.question_for = ss1.user_input]]

\* Lines 156-171.
run_generate(c) ==
    IF c.ended # "completed" THEN c
    ELSE IF c.kind = "generate" /\ c.user_input # ""
            /\ c.connection_status = "True"
    THEN LET schema_info == get_schema_info(c.db_connector, c.fail_at, c.db)
             sql_query == generate_sql_query(c.llm)
         IN  [c EXCEPT
                !.ss = [c.ss EXCEPT
                          !.sql_query = sql_query.value,
                          !.query_history =
                             Append(@, [question |-> c.user_input,
                                        sql |-> sql_query.value])],
                !.calls = c.calls \o
                   << [op |-> "get_schema_info", out |-> schema_info],
                      [op |-> "generate_sql_query", prompt |-> c.user_input,
                       schema_info |-> schema_info.value,
                       db_type |-> c.w.db_type, llm_raised |-> c.llm.raised,
                       out |-> sql_query] >>]
    ELSE c

\* Lines 174-190.
run_display(c) ==
    IF c.ended # "completed" THEN c
    ELSE IF c.connection_status = "True" /\ Truthy(c.ss.sql_query)
    THEN LET sql == IF c.kind = "edit_sql" THEN c.arg ELSE c.ss.sql_query
         IN  IF c.kind = "run" \/ c.ss.auto_run
             THEN [c EXCEPT
                     !.shown = TRUE, !.ss.sql_query = sql,
                     !.calls = Append(c.calls,
                        [op |-> "execute_query", query |-> sql,
                         out |-> execute_query(c.db_connector, Statement(sql),
                                               c.backend_ok, c.db)])]
             ELSE [c EXCEPT !.shown = TRUE, !.ss.sql_query = sql]
    ELSE c

\* Lines 246-254.
run_history(c) ==
    IF c.ended # "completed" THEN c
    ELSE IF c.kind = "load" /\ c.arg \in DOMAIN c.ss.query_history
    THEN [c EXCEPT !.ss.user_input = c.ss.query_history[c.arg].question,
                   !.ss.sql_query = c.ss.query_history[c.arg].sql,
                   !.ss.auto_run = TRUE,
                   !.ended = "rerun"]
    ELSE c

\* The script from line 23 to the line it ends at, and what it leaves.
Script(kind, arg, backend_ok, llm) ==
    \E c0 \in {RunStart(kind, arg, backend_ok, llm)} :
    \E c1 \in {run_setup(c0)} :
    \E c2 \in {run_status(c1)} :
    \E c3 \in {run_input(c2)} :
    \E c4 \in {run_generate(c3)} :
    \E c5 \in {run_display(c4)} :
    \E c \in {run_history(c5)} :
    \E n \in {Len(connectors) + 1} :
        /\ widgets' = c.w
        /\ session_state' = c.ss
        /\ connectors' =
             IF c.has
             THEN Append(connectors,
                         [object |-> c.db_connector, tmp |-> c.tmp,
                          referenced |-> c.ended = "completed"])
             ELSE connectors
        /\ tmp_files' = IF c.tmp THEN tmp_files \cup {n} ELSE tmp_files
        \* line 424: atexit.register(cleanup); cleanup keeps the globals of
        \* this run alive.
        /\ atexit_handlers' =
             IF c.ended = "completed"
             THEN Append(atexit_handlers,
                         [db_connector |-> IF c.has THEN n ELSE 0,
                          db_path |-> IF c.tmp THEN n ELSE 0,
                          uploaded_file |-> c.w.uploaded_file])
             ELSE atexit_handlers
        /\ pending' = (c.ended = "rerun")
        /\ last' = [trigger |-> kind, ended |-> c.ended,
                    connection_status |-> c.connection_status,
                    sql_shown |-> c.shown,
                    create_shown |-> c.create_shown,
                    calls |-> c.calls,
                    constructed |-> IF c.has THEN n ELSE 0,
                    \* whether the backend answered during this run, had
                    \* the run asked it
                    backend_ok |-> backend_ok]
        /\ runs' = runs + 1
        /\ sample_db' = (sample_db \/ c.created)
        /\ UNCHANGED <<process, connVars, genVars>>

LLMOutcomes == {Ret(r) : r \in SessionResponses} \cup {Raise("GoogleAPIError")}

NoLLM == Raise("not called")

Kinds ==
    {"open", "rerun", "select_db_type", "upload", "remove_upload",
     "toggle_sample", "create_sample", "connect", "example", "type_question",
     "generate", "run", "clear", "edit_sql", "load"}

\* The interactions the page rendered by the last run offers.  "open" is the
\* browser loading the page, "rerun" the run that st.rerun() asked for.
Offered(kind) ==
    IF runs = 0 THEN kind = "open"
    ELSE IF pending THEN kind = "rerun"
    ELSE CASE kind \in {"open", "rerun"} -> FALSE
           [] kind = "select_db_type" -> TRUE
           [] kind = "upload" ->
                widgets.db_type = "sqlite" /\ ~widgets.uploaded_file
           [] kind = "remove_upload" ->
                widgets.db_type = "sqlite" /\ widgets.uploaded_file
           [] kind = "toggle_sample" -> widgets.db_type = "sqlite"
           [] kind = "create_sample" -> last.create_shown
           [] kind = "connect" -> widgets.db_type # "sqlite"
           [] kind \in {"example", "type_question", "clear"} ->
                last.ended # "exception"
           [] kind = "generate" ->
                /\ last.connection_status = "True"
                /\ Len(session_state.query_history) < MaxHistory
           [] kind = "run" -> last.connection_status = "True"
           [] kind = "edit_sql" -> last.sql_shown
           [] kind = "load" -> last.ended # "exception"

\* What the user supplies with an interaction.
ArgsOf(kind) ==
    CASE kind = "select_db_type" -> SupportedTypes \ {widgets.db_type}
      [] kind = "connect" -> FormArgs
      [] kind = "type_question" -> Questions
      [] kind = "edit_sql" -> EditedSql
      [] kind = "load" -> DOMAIN session_state.query_history
      [] OTHER -> {""}

\* One script run, caused by one interaction among kinds.
RerunOf(kinds, max_runs) ==
    /\ process = "running"
    /\ runs < max_runs
    /\ \E kind \in kinds :
         /\ Offered(kind)
         /\ \E arg \in ArgsOf(kind), backend_ok \in BOOLEAN,
               llm \in IF kind = "generate" THEN LLMOutcomes ELSE {NoLLM} :
              Script(kind, arg, backend_ok, llm)

Rerun == RerunOf(Kinds, MaxRuns)

\* The server process ends: the registered exit handlers run.
ProcessExit ==
    /\ process = "running" /\ runs > 0
    /\ LET d == run_exit_handlers(atexit_handlers,
                                  [connectors |-> connectors,
                                   tmp_files |-> tmp_files])
       IN  /\ connectors' = d.connectors
           /\ tmp_files' = d.tmp_files
    /\ process' = "exited"
    /\ pending' = FALSE
    /\ UNCHANGED <<widgets, session_state, sample_db, atexit_handlers, last,
                   runs, connVars, genVars>>

InitUI ==
    /\ env = NoEnv
    /\ self = NoConnector
    /\ closes = 0
    /\ database = SampleCatalog
    /\ result = NoCall
    /\ response = <<>>
    /\ generated = NotGenerated
    /\ widgets = [db_type |-> "sqlite", uploaded_file |-> FALSE,
                  use_sample_db |-> FALSE, question |-> "", question_for |-> ""]
    /\ session_state = [user_input |-> "", sql_query |-> Absent,
                        query_history |-> <<>>, auto_run |-> FALSE]
    /\ tmp_files = {}
    /\ sample_db \in BOOLEAN
    /\ connectors = <<>>
    /\ atexit_handlers = <<>>
    /\ process = "running"
    /\ pending = FALSE
    /\ last = NoRun
    /\ runs = 0

NextUI ==
    \/ Rerun
    \/ ProcessExit

SpecUI == InitUI /\ [][NextUI]_vars

\* The query flow of a session on an uploaded SQLite file: the page is
\* opened, a file uploaded, and from then on the user only asks, generates,
\* edits, runs, clears and loads from the history.
MaxQueryRuns == 7

QueryKinds ==
    {"open", "rerun", "upload", "example", "type_question", "generate",
     "run", "clear", "edit_sql", "load"}

RerunQuery == RerunOf(QueryKinds, MaxQueryRuns)

InitQuery == InitUI /\ ~sample_db

NextQuery == RerunQuery

SpecQuery == InitQuery /\ [][NextQuery]_vars

-----------------------------------------------------------------------------
(* Properties *)

Out == result.out

Success == Tuple(TRUE, Str("Connection successful.", ""))

\* C1 (as amended): test_connection returns (True, "Connection successful.")
\* exactly when the liveness query succeeds; when the connector holds no
\* engine it returns (False, "Database engine not created."); when the
\* liveness query fails it returns (False, "Connection failed: <cause>").
C1_TestConnectionResult ==
    result.op = "test_connection" =>
      /\ ~Out.raised
      /\ IF self.engine = NoneEngine
         THEN Out.value = Tuple(FALSE, Str("Database engine not created.", ""))
         ELSE IF result.backend_ok
         THEN Out.value = Success
         ELSE /\ Out.value.ok = FALSE
              /\ Out.value.message.prefix = "Connection failed: "
              /\ Out.value.message.cause # ""

\* The connector holds no engine and test_connection was called.
C1_Witness ==
    /\ result.op = "test_connection"
    /\ self.engine = NoneEngine

\* C1 as stated: every failure, the missing engine included, is reported as
\* (False, "Connection failed: <cause>").
C1_Original ==
    result.op = "test_connection" =>
      IF self.engine # NoneEngine /\ result.backend_ok
      THEN Out.value = Success
      ELSE /\ Out.value.ok = FALSE
           /\ Out.value.message.prefix = "Connection failed: "

\* C2: close never raises, and once close has been called every
\* execute_query on the connector returns an error value, not a table.
C2_CloseInvalidates ==
    /\ result.op = "close" => ~Out.raised
    /\ (result.op = "execute_query" /\ closes >= 1) =>
         (~Out.raised /\ Out.value.type = "str")

\* The fields a dialect requires of a profile.
RequiredFields(db_type) ==
    IF db_type = "sqlite" THEN {"db_path"}
    ELSE {"db_host", "db_port", "db_name", "db_user", "db_password"}

ProfileIncomplete ==
    \/ self.db_type \notin SupportedTypes
    \/ \E f \in RequiredFields(self.db_type) : self[f] = None

\* C3: a profile with a required field missing or an unsupported dialect is
\* reported as a configuration error when the connector is built, no engine
\* is constructed, and test_connection never reports it as a connection
\* failure.
C3_ProfileValidated ==
    (self # NoConnector /\ ProfileIncomplete) =>
      /\ self.engine = NoneEngine
      /\ result.op = "__init__" => result.printed # <<>>
      /\ result.op = "test_connection" =>
           Out.value.message.prefix # "Connection failed: "

\* C4: no call on the connector raises; execute_query returns either a
\* table or an error string, a table exactly when the statement ran.
C4_FailuresBecomeValues ==
    result.op # "none" =>
      /\ ~Out.raised
      /\ result.op = "execute_query" =>
           /\ Out.value.type \in {"DataFrame", "str"}
           /\ Out.value.type = "DataFrame" =>
                (self.engine # NoneEngine /\ result.backend_ok)
      /\ result.op = "__init__" => self # NoConnector

\* execute_query was called and the statement failed, or there was no engine.
C4_Witness ==
    /\ result.op = "execute_query"
    /\ \/ self.engine = NoneEngine
       \/ ~result.backend_ok
       \/ result.query = "SELEC 1"
    /\ Out.value.type = "str"

\* The names the catalog query of the connector's dialect returns.
CatalogNames ==
    Execute(self.engine, database, tables_query(self)).value.rows

TotalRowsLines(block) ==
    { k \in DOMAIN block : block[k].text = "Total rows: " }

\* C5: when every query reaches the backend, the report holds one block per
\* name the catalog query returned, in that order, each with exactly one
\* Total rows line that carries the row count of that table.
C5_OneBlockPerTable ==
    (result.op = "get_schema_info" /\ result.fail_at = 0) =>
      LET blocks == TableBlocks(Out.value)
      IN  /\ Len(blocks) = Len(CatalogNames)
          /\ \A i \in DOMAIN blocks :
               /\ blocks[i][1] = HeaderLine(CatalogNames[i])
               /\ Cardinality(TotalRowsLines(blocks[i])) = 1
               /\ \A k \in TotalRowsLines(blocks[i]) :
                    blocks[i][k].count = TableOf(database, CatalogNames[i]).rows

\* C6: in every table block a column line carries the PRIMARY KEY marker
\* exactly when the column belongs to the table's primary key (its key
\* position is not 0).
C6_PrimaryKeyMarked ==
    result.op = "get_schema_info" =>
      \A i \in DOMAIN TableBlocks(Out.value) :
        LET block == TableBlocks(Out.value)[i]
            cols == TableOf(database, block[1].name).cols
        IN  \A k \in DOMAIN block :
              block[k].text = "  - " =>
                \A c \in DOMAIN cols :
                  cols[c].name = block[k].name =>
                    (block[k].is_pk = "PRIMARY KEY" <=> cols[c].pk # 0)

\* C7: when any query of get_schema_info fails, the call returns the error
\* string and no table block; a report is never partial.
C7_AllOrNothing ==
    result.op = "get_schema_info" =>
      LET body == schema_body(self, result.fail_at, database)
          blocks == TableBlocks(Out.value)
      IN  /\ ~Out.raised
          /\ body.raised =>
               /\ Out.value.prefix = "Error fetching schema information: "
               /\ blocks = <<>>
          /\ blocks = <<>> \/ Len(blocks) = Len(CatalogNames)

\* A query failed after the block of an earlier table had been built.
C7_Witness ==
    /\ result.op = "get_schema_info"
    /\ schema_body(self, result.fail_at, database).raised
    /\ Len(schema_body(self, result.fail_at, database).built) >= 1

\* A text wrapped in an opening sql fence and a closing fence.
Wrapped(t) ==
    /\ Len(t) >= Len(FenceSql) + Len(Fence)
    /\ startswith(t, FenceSql)
    /\ endswith(t, Fence)

Between(t) == SubSeq(t, Len(FenceSql) + 1, Len(t) - Len(Fence))

\* C8: a text wrapped in the two fences is returned as the text between
\* them, and any other text is returned unmodified (in both cases apart from
\* white space at the ends, as in the claim's own example).
C8_FenceNormalization ==
    (generated # NotGenerated /\ "chars" \in DOMAIN generated.value) =>
      LET t == strip(response)
      IN  IF Wrapped(t)
          THEN generated.value.chars = strip(Between(t))
          ELSE generated.value.chars = t

\* C9: the temporary copy made for a connector is gone from disk once a
\* later connector has replaced it, and no temporary copy is left when the
\* process has ended.
C9_TempFilesDeleted ==
    /\ \A i \in DOMAIN connectors :
         (connectors[i].tmp /\ i < Len(connectors)) => i \notin tmp_files
    /\ process = "exited" => tmp_files = {}

\* The connectors that still exist (the globals of the run that built them
\* are kept by its exit handler) and whose engine was never disposed.
Undisposed ==
    { i \in DOMAIN connectors :
        /\ connectors[i].referenced
        /\ connectors[i].object.engine # NoneEngine
        /\ connectors[i].object.engine.pool_gen = 0 }

\* C10: while the session runs, at most one connector with an undisposed
\* engine exists.
C10_OneLiveConnector ==
    process = "running" => Cardinality(Undisposed) <= 1

\* The calls the last script run made, by name.
CallsOf(op) == { i \in DOMAIN last.calls : last.calls[i].op = op }

\* C11: in a run caused by a press of Generate SQL with a non-empty question
\* (the button is offered only after test_connection succeeded), while the
\* backend answers, get_schema_info is called, generate_sql_query is called
\* with that report, and its text becomes the session's SQL query; in a run
\* caused by a press of Run Query the session's SQL text is passed to
\* execute_query.  For every dialect.
C11_GenerateAndRunReachBackend ==
    (last.ended = "completed" /\ last.backend_ok) =>
      /\ (last.trigger = "generate" /\ widgets.question # "") =>
           \E i \in CallsOf("get_schema_info"), j \in CallsOf("generate_sql_query") :
              /\ i < j
              /\ last.calls[j].schema_info = last.calls[i].out.value
              /\ session_state.sql_query = last.calls[j].out.value
      /\ (last.trigger = "run" /\ Truthy(session_state.sql_query)) =>
           \E k \in CallsOf("execute_query") :
              last.calls[k].query = session_state.sql_query

\* C12: a script run calls execute_query only if it was caused by a press of
\* Run Query or of a Load Query button (the press itself, or the run that
\* st.rerun() starts after it; the run st.rerun() starts after Clear finds no
\* SQL text); a run caused by any other action executes nothing.
C12_QueriesRunOnDemand ==
    CallsOf("execute_query") # {} => last.trigger \in {"run", "load", "rerun"}

\* The table names get_tables returned.
Listed ==
    IF Out.value.type = "DataFrame"
    THEN { Out.value.rows[i] : i \in DOMAIN Out.value.rows }
    ELSE {}

\* The table names get_schema_info describes on the same database.
Described ==
    LET blocks == TableBlocks(get_schema_info(self, 0, database).value)
    IN  { blocks[i][1].name : i \in DOMAIN blocks }

\* C13: on the same database get_tables returns exactly the tables that
\* get_schema_info describes, and for SQLite neither holds a table whose
\* name begins with sqlite_.
C13_SameTablesAtBothCallSites ==
    (result.op = "get_tables" /\ result.backend_ok) =>
      /\ Listed = Described
      /\ self.db_type = "sqlite" =>
           \A n \in Listed \cup Described : ~LikeSqlitePrefix(n)

\* The (name, row count) pairs of the blocks of a schema report, in order.
Reported(v) ==
    LET blocks == TableBlocks(v)
    IN  [i \in DOMAIN blocks |->
           <<blocks[i][1].name,
             { blocks[i][k].count : k \in TotalRowsLines(blocks[i]) }>>]

\* C14: the run caused by a press of Create Sample Database creates the
\* sample database, opens a connector to it, and get_schema_info on it
\* reports customers (5 rows), categories (4), products (10), orders (8) and
\* order_items (12), in that order.
C14_SampleDatabaseCreated ==
    (last.trigger = "create_sample" /\ last.backend_ok) =>
      /\ last.ended = "completed"
      /\ sample_db
      /\ last.constructed # 0
      /\ \E i \in CallsOf("get_schema_info") :
           Reported(last.calls[i].out.value) =
             << <<"customers", {5}>>, <<"categories", {4}>>,
                <<"products", {10}>>, <<"orders", {8}>>,
                <<"order_items", {12}>> >>

\* The string generate_sql_query returns for a failed LLM call.
IsGenerationError(v) ==
    /\ v.type = "str"
    /\ v.prefix = "Error generating SQL query: "
    /\ v.cause # ""

\* What a script run does with a failed LLM call: the call returns the error
\* string, which becomes the session's SQL query and the sql of one new
\* history entry for the question asked.
StoresGenerationError ==
    \A j \in { i \in DOMAIN last'.calls :
                 /\ last'.calls[i].op = "generate_sql_query"
                 /\ last'.calls[i].llm_raised } :
       LET out == last'.calls[j].out
       IN  /\ ~out.raised
           /\ IsGenerationError(out.value)
           /\ session_state'.sql_query = out.value
           /\ session_state'.query_history =
                Append(session_state.query_history,
                       [question |-> last'.calls[j].prompt, sql |-> out.value])

\* What a press of Run Query does, on a live connection, when the session's
\* SQL query is such an error string: execute_query is handed the string and
\* returns an error value.
RunsGenerationError ==
    ( /\ last'.trigger = "run"
      /\ last'.connection_status = "True"
      /\ IsGenerationError(session_state.sql_query) ) =>
        \E k \in DOMAIN last'.calls :
           /\ last'.calls[k].op = "execute_query"
           /\ last'.calls[k].query = session_state.sql_query
           /\ ~last'.calls[k].out.raised
           /\ last'.calls[k].out.value.type = "str"

\* C15: in every script run, a failing LLM call never raises out of
\* generate_sql_query; its error string is stored as the session's SQL query
\* and in one new history entry, and running it hands the string to
\* execute_query, which returns an error value.
C15_GenerationErrorTreatedAsSql ==
    [][runs' # runs => (StoresGenerationError /\ RunsGenerationError)]_vars

\* The LLM call failed, its error string was stored, and Run Query was
\* pressed on it.
C15_Witness ==
    /\ last.trigger = "run"
    /\ IsGenerationError(session_state.sql_query)
    /\ \E i \in DOMAIN session_state.query_history :
         session_state.query_history[i].sql = session_state.sql_query
    /\ \E k \in CallsOf("execute_query") :
         /\ last.calls[k].query = session_state.sql_query
         /\ last.calls[k].out.value.type = "str"

====
